---- MODULE Spec2Model ----
(***************************************************************************)
(* Model of the ESP32 button BSP module (Button/Button.c, Button/Button.h). *)
(*                                                                         *)
(* State: the module flag, the table system_buttons_infos, the GPIO        *)
(* driver's per-pin interrupt configuration, the FreeRTOS software timers  *)
(* created for the buttons, the timer callback in progress, the number of  *)
(* button_CB invocations, and the last call made together with its return  *)
(* value. The level of a pin is an input of the step that samples it.      *)
(*                                                                         *)
(* Contexts: the public functions run in task context, generic_button_CB   *)
(* runs in interrupt context (one atomic step), timer_CB runs in the timer *)
(* daemon task and is modelled in two steps (pin sample, then the write)   *)
(* because an interrupt can preempt it between the two.                    *)
(***************************************************************************)
EXTENDS Integers, Sequences, FiniteSets, TLC

\* ---------------------------------------------------------------- bounds
\* Number of identifiers outside the closed enumeration that are tried.
NumInvalidIDs == 1
\* Cap on num_of_presses (uint64_t in the code; the cap keeps TLC finite).
MaxPresses == 2

\* ------------------------------------------------------ program constants
\* NUM_OF_BUTTONS: size of system_buttons_infos.
NUM_OF_BUTTONS == 2
\* NULL timer handle.
NULL == 0
\* Button_state enumerators (values of gpio_get_level after the cast).
BUTTON_IS_NOT_PRESSED == 0
BUTTON_IS_PRESSED == 1
\* gpio_int_type_t: GPIO_INTR_DISABLE and the edge type the buttons declare.
GPIO_INTR_DISABLE == 0
GPIO_INTR_ANYEDGE == 3
\* gpio_pull_mode_t: GPIO_PULLUP_ONLY .. GPIO_FLOATING are 0 .. 3.
GPIO_FLOATING == 3

\* Button_return enumerators.
BSP_BUTTON_OK == "BSP_BUTTON_OK"
BSP_BUTTON_INIT_ERR == "BSP_BUTTON_INIT_ERR"
BSP_BUTTON_DE_INIT_ERR == "BSP_BUTTON_DE_INIT_ERR"
BSP_BUTTON_INVALID_BUTTONS_CONFIG_ERR == "BSP_BUTTON_INVALID_BUTTONS_CONFIG_ERR"
BSP_BUTTON_MODULE_WAS_NOT_INIT_ERR == "BSP_BUTTON_MODULE_WAS_NOT_INIT_ERR"
BSP_BUTTON_DOES_NOT_EXIST_ERR == "BSP_BUTTON_DOES_NOT_EXIST_ERR"
BSP_BUTTON_WAS_INITIALIZED_ERR == "BSP_BUTTON_WAS_INITIALIZED_ERR"
BSP_BUTTON_WAS_NOT_INITIALIZED_ERR == "BSP_BUTTON_WAS_NOT_INITIALIZED_ERR"

\* ------------------------------------------------------------------ sets
\* Table positions, which are also the identifiers of the closed enumeration.
Positions == 0 .. (NUM_OF_BUTTONS - 1)
\* Identifiers a caller may pass: the enumeration and some outside it.
AllIDs == 0 .. (NUM_OF_BUTTONS - 1 + NumInvalidIDs)
\* Pin numbers: 0 (the pin of a zeroed row), the pin i+1 declared for button
\* i, and one number that is no legal pin.
InvalidGPIO == NUM_OF_BUTTONS + 1
ValidGPIOs == 0 .. NUM_OF_BUTTONS
Levels == {BUTTON_IS_NOT_PRESSED, BUTTON_IS_PRESSED}

VARIABLES
    button_module_was_initialized,  \* static bool
    system_buttons_infos,           \* static table, position -> record
    gpio,                           \* GPIO driver: pin -> interrupt setup
    timer,                          \* timer name -> dormant / queued / active
    timer_cb,                       \* the timer_CB in progress (or none)
    cb_calls,                       \* button_CB invocations per identifier
    button_CB_defined,              \* whether the build links a button_CB
    fault,                          \* the CPU took an exception and stopped
    last                            \* last call: op, id, ret, out, hw

vars == <<button_module_was_initialized, system_buttons_infos, gpio, timer,
          timer_cb, cb_calls, button_CB_defined, fault, last>>

\* Every function of the module runs only while the CPU runs, and none of
\* them but generic_button_CB (through its call of button_CB) can stop it.
Running == ~fault /\ UNCHANGED <<button_CB_defined, fault>>

\* ------------------------------------------------------- pure functions
\* Mutant of CHECK_IF_MODULE_WAS_INTIALIZED: the macro never returns.
CHECK_IF_MODULE_WAS_INTIALIZED_Never == FALSE

\* The macro CHECK_IF_MODULE_WAS_INTIALIZED: true when it makes the function
\* return BSP_BUTTON_MODULE_WAS_NOT_INIT_ERR.
CHECK_IF_MODULE_WAS_INTIALIZED == ~button_module_was_initialized

\* Mutant of ModuleInitIsNeeded: the module is set up on every call.
ModuleInitIsNeeded_Always == TRUE

\* The guard of init_BSP_button_module (line 140).
ModuleInitIsNeeded == ~button_module_was_initialized

\* check_button_ID: the switch over BUTTONS.
check_button_ID(ID) == ID \in Positions

GPIO_IS_VALID_GPIO(g) == g \in ValidGPIOs

\* The pull-mode switch of check_configurations_sort_and_init.
PullModeIsValid(m) == m \in 0 .. GPIO_FLOATING

\* The row {0u} of the local array buttons_info.
ZeroRow ==
    [ID |-> 0, was_initialized |-> FALSE, GPIO |-> 0, pull_mode |-> 0,
     interruption_type |-> 0, state |-> 0, debounce |-> NULL,
     debounce_timer_expired |-> FALSE, num_of_presses |-> 0]

\* A row as the BUTTON_CONFIG initializer builds it.
ConfigRow(ID, g, pull) ==
    [ID |-> ID, was_initialized |-> FALSE, GPIO |-> g, pull_mode |-> pull,
     interruption_type |-> GPIO_INTR_ANYEDGE, state |-> BUTTON_IS_NOT_PRESSED,
     debounce |-> NULL, debounce_timer_expired |-> FALSE, num_of_presses |-> 0]

\* Handle of the timer xTimerCreate makes under the name of button i.
TimerHandle(i) == i + 1
\* pcTimerGetName followed by the strcmp chain of timer_CB.
TimerName(h) == h - 1

\* First loop of check_configurations_sort_and_init (lines 300-327), from
\* position i on: validates each row and copies it to buttons_info[row.ID].
RECURSIVE ValidateAndIndex(_, _, _)
ValidateAndIndex(i, tbl, info) ==
    IF i = NUM_OF_BUTTONS THEN [ok |-> TRUE, info |-> info]
    ELSE IF ~check_button_ID(tbl[i].ID) THEN [ok |-> FALSE, info |-> info]
    ELSE IF ~GPIO_IS_VALID_GPIO(tbl[i].GPIO) THEN [ok |-> FALSE, info |-> info]
    ELSE IF ~PullModeIsValid(tbl[i].pull_mode) THEN [ok |-> FALSE, info |-> info]
    ELSE ValidateAndIndex(i + 1, tbl, [info EXCEPT ![tbl[i].ID] = tbl[i]])

\* Second loop (lines 329-359), from position i on: copies buttons_info[i]
\* into the global table and creates the timer named after button i.
\* failAt is the position whose xTimerCreate returns NULL (NUM_OF_BUTTONS
\* when none does); created counts the timers made.
RECURSIVE CopyAndCreateTimers(_, _, _, _, _)
CopyAndCreateTimers(i, tbl, info, failAt, created) ==
    IF i = NUM_OF_BUTTONS THEN [ok |-> TRUE, tbl |-> tbl, created |-> created]
    ELSE IF failAt = i
         THEN [ok |-> FALSE,
               tbl |-> [tbl EXCEPT ![i] = [info[i] EXCEPT !.debounce = NULL]],
               created |-> created]
         ELSE CopyAndCreateTimers(i + 1,
                  [tbl EXCEPT ![i] = [info[i] EXCEPT !.debounce = TimerHandle(i)]],
                  info, failAt, created + 1)

\* check_configurations_sort_and_init on the table tbl.
check_configurations_sort_and_init(tbl, failAt) ==
    LET v == ValidateAndIndex(0, tbl, [i \in Positions |-> ZeroRow])
    IN  IF ~v.ok THEN [ok |-> FALSE, tbl |-> tbl, created |-> 0]
        ELSE CopyAndCreateTimers(0, tbl, v.info, failAt, 0)

\* What a call leaves in last: the function, its identifier argument, its
\* return code, its output parameter (the timers created, for
\* init_BSP_button_module) and the number of GPIO driver calls it made.
Call(op, id, ret, out, hw) ==
    [op |-> op, id |-> id, ret |-> ret, out |-> out, hw |-> hw]

NoTimerCB == [running |-> FALSE, ID |-> 0, level |-> 0]

\* The pin a declaration gives button ID.
DeclGPIO(ID) == IF ID \in Positions THEN ID + 1 ELSE 0

\* The rows a BUTTONS_CONFIGURATIONS list may declare.
DeclRows ==
    { ConfigRow(ID, g, pull) :
        ID \in AllIDs, g \in ValidGPIOs \cup {InvalidGPIO}, pull \in {0, GPIO_FLOATING + 1} }

\* The tables a build can produce: one row per declared button, no
\* identifier declared twice (the switch of line 338 would not compile),
\* each row on its declared pin or on an illegal one.
DeclTables ==
    { tbl \in [Positions -> DeclRows] :
        /\ \A i, j \in Positions : tbl[i].ID = tbl[j].ID => i = j
        /\ \A i \in Positions : tbl[i].GPIO \in {DeclGPIO(tbl[i].ID), InvalidGPIO} }

Init ==
    /\ button_module_was_initialized = FALSE
    /\ system_buttons_infos \in DeclTables
    /\ gpio = [p \in ValidGPIOs |->
                 [intr_type |-> GPIO_INTR_DISABLE, intr_en |-> FALSE,
                  isr_installed |-> FALSE, isr_arg |-> 0]]
    /\ timer = [i \in Positions |-> "dormant"]
    /\ timer_cb = NoTimerCB
    /\ cb_calls = [i \in Positions |-> 0]
    /\ button_CB_defined \in BOOLEAN
    /\ fault = FALSE
    /\ last = Call("none", 0, BSP_BUTTON_OK, 0, 0)

\* init_BSP_button_module. failAt: the xTimerCreate that fails
\* (NUM_OF_BUTTONS: none); isr_ok: whether gpio_install_isr_service returns
\* ESP_OK.
init_BSP_button_module ==
    /\ Running
    /\ UNCHANGED <<gpio, timer, timer_cb, cb_calls>>
    /\ IF ~ModuleInitIsNeeded
       THEN /\ last' = Call("init_BSP_button_module", 0, BSP_BUTTON_OK, 0, 0)
            /\ UNCHANGED <<button_module_was_initialized, system_buttons_infos>>
       ELSE \E failAt \in 0 .. NUM_OF_BUTTONS, isr_ok \in BOOLEAN :
            LET r == check_configurations_sort_and_init(system_buttons_infos, failAt)
            IN  /\ system_buttons_infos' = r.tbl
                /\ button_module_was_initialized' = (r.ok /\ isr_ok)
                /\ last' = Call("init_BSP_button_module", 0,
                                IF ~r.ok THEN BSP_BUTTON_INVALID_BUTTONS_CONFIG_ERR
                                ELSE IF ~isr_ok THEN BSP_BUTTON_INIT_ERR
                                ELSE BSP_BUTTON_OK,
                                r.created, IF r.ok THEN 1 ELSE 0)

\* ------------------------------------------------------------ GPIO driver
\* gpio_reset_pin: the pin's interrupt is disabled (the handler slot stays).
gpio_reset_pin(g, p) ==
    [g EXCEPT ![p].intr_type = GPIO_INTR_DISABLE, ![p].intr_en = FALSE]

gpio_set_intr_type(g, p, type) == [g EXCEPT ![p].intr_type = type]

\* gpio_isr_handler_add: stores handler and argument, enables the interrupt.
gpio_isr_handler_add(g, p, arg) ==
    [g EXCEPT ![p].isr_installed = TRUE, ![p].isr_arg = arg, ![p].intr_en = TRUE]

\* The collaborator calls of init_button (lines 174-194) in order: 1 reset,
\* 2 direction, 3 pull mode, 4 interrupt type, 5 handler. failAt = k: the
\* k-th call fails and has no effect, the calls before it took effect;
\* failAt = 0: none fails.
GpioAfterInit(g, ID, failAt) ==
    LET row == system_buttons_infos[ID]
        n   == IF failAt = 0 THEN 5 ELSE failAt - 1
        g1  == IF n >= 1 THEN gpio_reset_pin(g, row.GPIO) ELSE g
        g4  == IF n >= 4 THEN gpio_set_intr_type(g1, row.GPIO, row.interruption_type)
               ELSE g1
    IN  IF n >= 5 THEN gpio_isr_handler_add(g4, row.GPIO, ID) ELSE g4

\* The collaborator calls of de_init_button (lines 220-226): 1 reset,
\* 2 interrupt type GPIO_INTR_DISABLE.
GpioAfterDeInit(g, ID, failAt) ==
    LET row == system_buttons_infos[ID]
        n   == IF failAt = 0 THEN 2 ELSE failAt - 1
        g1  == IF n >= 1 THEN gpio_reset_pin(g, row.GPIO) ELSE g
    IN  IF n >= 2 THEN gpio_set_intr_type(g1, row.GPIO, GPIO_INTR_DISABLE) ELSE g1

\* What init_button leaves in the row once every collaborator call succeeded.
InitButtonRow(row) ==
    [row EXCEPT !.was_initialized = TRUE, !.debounce_timer_expired = TRUE]

\* Mutant of FailedInitButtonRow: the flags are written before the
\* collaborator calls, so a failed call leaves them set.
FailedInitButtonRow_FlagsWritten(row) == InitButtonRow(row)

\* What init_button leaves in the row when a collaborator call failed: each
\* failure returns (lines 175-196) before the writes of lines 199-200.
FailedInitButtonRow(row) == row

\* Mutant of DeInitButtonRow: de-registration resets the press counter.
DeInitButtonRow_CounterReset(row) == [row EXCEPT !.num_of_presses = 0]

\* What de_init_button leaves in the row once every collaborator call
\* succeeded: the function writes no field of the row.
DeInitButtonRow(row) == row

\* ------------------------------------------------------------ public API
\* Mutant of ButtonWasInitialized: init_button does not look at the flag.
ButtonWasInitialized_NotChecked(ID) == FALSE

\* The test of init_button on was_initialized (line 169).
ButtonWasInitialized(ID) == system_buttons_infos[ID].was_initialized

init_button(ID) ==
    /\ Running
    /\ UNCHANGED <<button_module_was_initialized, timer, timer_cb, cb_calls>>
    /\ IF CHECK_IF_MODULE_WAS_INTIALIZED
       THEN /\ last' = Call("init_button", ID, BSP_BUTTON_MODULE_WAS_NOT_INIT_ERR, 0, 0)
            /\ UNCHANGED <<system_buttons_infos, gpio>>
       ELSE IF ~check_button_ID(ID)
       THEN /\ last' = Call("init_button", ID, BSP_BUTTON_DOES_NOT_EXIST_ERR, 0, 0)
            /\ UNCHANGED <<system_buttons_infos, gpio>>
       ELSE IF ButtonWasInitialized(ID)
       THEN /\ last' = Call("init_button", ID, BSP_BUTTON_WAS_INITIALIZED_ERR, 0, 0)
            /\ UNCHANGED <<system_buttons_infos, gpio>>
       ELSE \E failAt \in 0 .. 5 :
            /\ gpio' = GpioAfterInit(gpio, ID, failAt)
            /\ IF failAt # 0
               THEN /\ last' = Call("init_button", ID, BSP_BUTTON_INIT_ERR, 0, failAt)
                    /\ system_buttons_infos' =
                         [system_buttons_infos EXCEPT
                            ![ID] = FailedInitButtonRow(system_buttons_infos[ID])]
               ELSE /\ system_buttons_infos' =
                         [system_buttons_infos EXCEPT
                            ![ID] = InitButtonRow(system_buttons_infos[ID])]
                    /\ last' = Call("init_button", ID, BSP_BUTTON_OK, 0, 5)

de_init_button(ID) ==
    /\ Running
    /\ UNCHANGED <<button_module_was_initialized, timer, timer_cb, cb_calls>>
    /\ IF CHECK_IF_MODULE_WAS_INTIALIZED
       THEN /\ last' = Call("de_init_button", ID, BSP_BUTTON_MODULE_WAS_NOT_INIT_ERR, 0, 0)
            /\ UNCHANGED <<system_buttons_infos, gpio>>
       ELSE IF ~check_button_ID(ID)
       THEN /\ last' = Call("de_init_button", ID, BSP_BUTTON_DOES_NOT_EXIST_ERR, 0, 0)
            /\ UNCHANGED <<system_buttons_infos, gpio>>
       ELSE IF ~system_buttons_infos[ID].was_initialized
       THEN /\ last' = Call("de_init_button", ID, BSP_BUTTON_WAS_NOT_INITIALIZED_ERR, 0, 0)
            /\ UNCHANGED <<system_buttons_infos, gpio>>
       ELSE \E failAt \in 0 .. 2 :
            /\ gpio' = GpioAfterDeInit(gpio, ID, failAt)
            /\ IF failAt # 0
               THEN /\ last' = Call("de_init_button", ID, BSP_BUTTON_DE_INIT_ERR, 0, failAt)
                    /\ UNCHANGED system_buttons_infos
               ELSE /\ system_buttons_infos' =
                         [system_buttons_infos EXCEPT
                            ![ID] = DeInitButtonRow(system_buttons_infos[ID])]
                    /\ last' = Call("de_init_button", ID, BSP_BUTTON_OK, 0, 2)

\* The return code and *state of read_button_state.
ReadButtonStateResult(ID) ==
    IF CHECK_IF_MODULE_WAS_INTIALIZED
    THEN Call("read_button_state", ID, BSP_BUTTON_MODULE_WAS_NOT_INIT_ERR, 0, 0)
    ELSE IF ~check_button_ID(ID)
    THEN Call("read_button_state", ID, BSP_BUTTON_DOES_NOT_EXIST_ERR, 0, 0)
    ELSE IF ~system_buttons_infos[ID].was_initialized
    THEN Call("read_button_state", ID, BSP_BUTTON_WAS_NOT_INITIALIZED_ERR, 0, 0)
    ELSE Call("read_button_state", ID, BSP_BUTTON_OK, system_buttons_infos[ID].state, 0)

read_button_state(ID) ==
    /\ Running
    /\ last' = ReadButtonStateResult(ID)
    /\ UNCHANGED <<button_module_was_initialized, system_buttons_infos, gpio,
                   timer, timer_cb, cb_calls>>

\* Mutant of GetNumOfPressesResult: the identifier is not checked and an
\* identifier outside the table reads as 0.
GetNumOfPressesResult_NoIDCheck(ID) ==
    IF CHECK_IF_MODULE_WAS_INTIALIZED
    THEN Call("get_num_of_presses", ID, BSP_BUTTON_MODULE_WAS_NOT_INIT_ERR, 0, 0)
    ELSE Call("get_num_of_presses", ID, BSP_BUTTON_OK,
              IF ID \in DOMAIN system_buttons_infos
              THEN system_buttons_infos[ID].num_of_presses ELSE 0, 0)

\* Mutant of GetNumOfPressesResult: the button must be initialized, as in
\* read_button_state.
GetNumOfPressesResult_NeedsInit(ID) ==
    IF CHECK_IF_MODULE_WAS_INTIALIZED
    THEN Call("get_num_of_presses", ID, BSP_BUTTON_MODULE_WAS_NOT_INIT_ERR, 0, 0)
    ELSE IF ~check_button_ID(ID)
    THEN Call("get_num_of_presses", ID, BSP_BUTTON_DOES_NOT_EXIST_ERR, 0, 0)
    ELSE IF ~system_buttons_infos[ID].was_initialized
    THEN Call("get_num_of_presses", ID, BSP_BUTTON_WAS_NOT_INITIALIZED_ERR, 0, 0)
    ELSE Call("get_num_of_presses", ID, BSP_BUTTON_OK,
              system_buttons_infos[ID].num_of_presses, 0)

\* The return code and *num_of_presses of get_num_of_presses.
GetNumOfPressesResult(ID) ==
    IF CHECK_IF_MODULE_WAS_INTIALIZED
    THEN Call("get_num_of_presses", ID, BSP_BUTTON_MODULE_WAS_NOT_INIT_ERR, 0, 0)
    ELSE IF ~check_button_ID(ID)
    THEN Call("get_num_of_presses", ID, BSP_BUTTON_DOES_NOT_EXIST_ERR, 0, 0)
    ELSE Call("get_num_of_presses", ID, BSP_BUTTON_OK,
              system_buttons_infos[ID].num_of_presses, 0)

get_num_of_presses(ID) ==
    /\ Running
    /\ last' = GetNumOfPressesResult(ID)
    /\ UNCHANGED <<button_module_was_initialized, system_buttons_infos, gpio,
                   timer, timer_cb, cb_calls>>

\* ---------------------------------------------------------- timer service
xTimerIsTimerActive(h) == timer[TimerName(h)] = "active"

\* xTimerStartFromISR: posts a start command for the timer to the daemon.
xTimerStartFromISR(t, h) == [t EXCEPT ![TimerName(h)] = "queued"]

\* The timer daemon takes a start command and puts the timer on its active
\* list.
TimerDaemonStart(i) ==
    /\ Running
    /\ timer[i] = "queued"
    /\ ~timer_cb.running
    /\ timer' = [timer EXCEPT ![i] = "active"]
    /\ last' = Call("timer_start", i, BSP_BUTTON_OK, 0, 0)
    /\ UNCHANGED <<button_module_was_initialized, system_buttons_infos, gpio,
                   timer_cb, cb_calls>>

\* ------------------------------------------------------ interrupt context
\* Mutant of EdgeIsAccepted: no anti-bounce test, every edge is accepted.
EdgeIsAccepted_Always(ID) == TRUE

\* Mutant of EdgeIsAccepted: the phase flag is not consulted, only the timer.
EdgeIsAccepted_TimerOnly(ID) ==
    ~xTimerIsTimerActive(system_buttons_infos[ID].debounce)

\* The anti-bouncing condition of generic_button_CB (lines 384-385).
EdgeIsAccepted(ID) ==
    /\ ~xTimerIsTimerActive(system_buttons_infos[ID].debounce)
    /\ system_buttons_infos[ID].debounce_timer_expired

\* Mutant of AcceptedEdgeRow: the accepted edge does not clear the flag.
AcceptedEdgeRow_FlagNotCleared(row, level) ==
    [row EXCEPT !.state = level, !.num_of_presses = @ + 1]

\* The row generic_button_CB leaves on an accepted edge (lines 388-394);
\* level is what gpio_get_level returns.
AcceptedEdgeRow(row, level) ==
    [row EXCEPT !.debounce_timer_expired = FALSE,
                !.state = level,
                !.num_of_presses = @ + 1]

\* Whether the interrupt of pin p reaches a handler.
InterruptIsDelivered(p) ==
    /\ gpio[p].intr_type # GPIO_INTR_DISABLE
    /\ gpio[p].intr_en
    /\ gpio[p].isr_installed

\* The call button_CB(ID) of line 395. button_CB is declared weak
\* (Button.h:179) and the module defines no default: in a build that links
\* no definition the symbol is the null address and the call stops the CPU
\* with an instruction-fetch exception.
CallFaults == ~button_CB_defined

\* generic_button_CB with args = &system_buttons_infos[arg].ID; level is what
\* gpio_get_level returns if it is called. It leaves in last.out the number
\* of times it executed the call of button_CB. When that call faults the
\* handler never reaches xTimerStartFromISR (line 397).
generic_button_CB(arg, level) ==
    LET ID  == system_buttons_infos[arg].ID
        row == system_buttons_infos[ID]
    IN  /\ last' = IF EdgeIsAccepted(ID)
                   THEN Call("generic_button_CB", ID, BSP_BUTTON_OK, 1, 1)
                   ELSE Call("generic_button_CB", ID, BSP_BUTTON_OK, 0, 0)
        /\ IF EdgeIsAccepted(ID)
           THEN /\ row.num_of_presses < MaxPresses
                /\ system_buttons_infos' =
                     [system_buttons_infos EXCEPT
                        ![ID] = AcceptedEdgeRow(row, level)]
                /\ cb_calls' = [cb_calls EXCEPT ![ID] = @ + 1]
                /\ IF CallFaults
                   THEN fault' = TRUE /\ UNCHANGED timer
                   ELSE /\ timer' = xTimerStartFromISR(timer, row.debounce)
                        /\ UNCHANGED fault
           ELSE UNCHANGED <<system_buttons_infos, cb_calls, timer, fault>>

\* The pins some row of the table is bound to.
WiredPins == {system_buttons_infos[i].GPIO : i \in Positions} \cap ValidGPIOs

\* An edge on pin p; lvl is the level the pin shows when the handler samples
\* it (contact bounce makes either level possible). The handler runs if the
\* interrupt is delivered.
Edge(p, lvl) ==
    /\ ~fault
    /\ p \in WiredPins
    /\ UNCHANGED <<button_module_was_initialized, gpio, timer_cb,
                   button_CB_defined>>
    /\ IF InterruptIsDelivered(p)
       THEN generic_button_CB(gpio[p].isr_arg, lvl)
       ELSE /\ last' = Call("edge_not_delivered", p, BSP_BUTTON_OK, 0, 0)
            /\ UNCHANGED <<system_buttons_infos, cb_calls, timer, fault>>

\* --------------------------------------------------- timer daemon context
\* Timer i expires: the one-shot timer leaves the active list and timer_CB
\* starts; it finds the identifier from the timer's name and samples the pin
\* (lines 406-426), which shows level lvl.
timer_CB_sample(i, lvl) ==
    /\ Running
    /\ timer[i] = "active"
    /\ ~timer_cb.running
    /\ timer' = [timer EXCEPT ![i] = "dormant"]
    /\ timer_cb' = [running |-> TRUE, ID |-> i, level |-> lvl]
    /\ last' = Call("timer_CB_sample", i, BSP_BUTTON_OK, lvl, 1)
    /\ UNCHANGED <<button_module_was_initialized, system_buttons_infos, gpio,
                   cb_calls>>

\* Mutant of SettledRow: the settle check also stores the released level.
SettledRow_StateWritten(row) ==
    [row EXCEPT !.debounce_timer_expired = TRUE,
                !.state = BUTTON_IS_NOT_PRESSED]

\* Mutant of SettledRow: the phase flag is not set back.
SettledRow_FlagNotSet(row) == row

\* The row timer_CB leaves when the sampled level is not BUTTON_IS_PRESSED
\* (line 432).
SettledRow(row) == [row EXCEPT !.debounce_timer_expired = TRUE]

\* Mutant of StillPressed: the comparison is inverted.
StillPressed_Inverted(level) == level # BUTTON_IS_PRESSED

\* The test of timer_CB on the level it sampled (line 426).
StillPressed(level) == level = BUTTON_IS_PRESSED

\* timer_CB acts on the level it sampled (lines 426-433).
timer_CB_commit ==
    /\ Running
    /\ timer_cb.running
    /\ LET ID == timer_cb.ID
       IN  IF StillPressed(timer_cb.level)
           THEN /\ timer' = xTimerStartFromISR(timer, system_buttons_infos[ID].debounce)
                /\ UNCHANGED system_buttons_infos
           ELSE /\ system_buttons_infos' =
                     [system_buttons_infos EXCEPT
                        ![ID] = SettledRow(system_buttons_infos[ID])]
                /\ UNCHANGED timer
    /\ timer_cb' = NoTimerCB
    /\ last' = Call("timer_CB", timer_cb.ID, BSP_BUTTON_OK, timer_cb.level, 0)
    /\ UNCHANGED <<button_module_was_initialized, gpio, cb_calls>>

\* ------------------------------------------------------------------ Next
Next ==
    \/ init_BSP_button_module
    \/ \E ID \in AllIDs : init_button(ID)
    \/ \E ID \in AllIDs : de_init_button(ID)
    \/ \E ID \in AllIDs : read_button_state(ID)
    \/ \E ID \in AllIDs : get_num_of_presses(ID)
    \/ \E p \in ValidGPIOs, lvl \in Levels : Edge(p, lvl)
    \/ \E i \in Positions : TimerDaemonStart(i)
    \/ \E i \in Positions, lvl \in Levels : timer_CB_sample(i, lvl)
    \/ timer_CB_commit

Spec == Init /\ [][Next]_vars

\* =================================================================
\* Vocabulary of the properties
\* =================================================================
Row(i) == system_buttons_infos[i]

\* Button i was registered: init_button(i) has returned BSP_BUTTON_OK (the
\* flag it sets is never cleared).
Registered(i) == Row(i).was_initialized

\* The two phases of the debounce state machine, as the phase flag tells them.
Quiescent(i) == Row(i).debounce_timer_expired
Debouncing(i) == ~Row(i).debounce_timer_expired

\* The debounce window of button i is open: the timer was started and its
\* callback has not begun.
WindowOpen(i) == Debouncing(i) /\ timer[i] \in {"queued", "active"}

\* Button i was handed to init_button with success and the interrupt of its
\* pin is off again, as de_init_button leaves it.
Deregistered(i) == Registered(i) /\ ~InterruptIsDelivered(Row(i).GPIO)

\* An expiry of the debounce timer of button i is ahead: the timer was
\* started, or is active, or its callback timer_CB is running.
ExpiryAhead(i) ==
    \/ timer[i] \in {"queued", "active"}
    \/ timer_cb.running /\ timer_cb.ID = i

ApiOps == {"init_button", "de_init_button", "read_button_state",
           "get_num_of_presses"}

\* =================================================================
\* Properties
\* =================================================================

\* C1: an edge interrupt on a Quiescent button raises its press counter by
\* exactly one, invokes button_CB exactly once and makes it Debouncing;
\* every further edge interrupt while that window is open (no timer expiry
\* yet) leaves the counter and the number of button_CB invocations as they
\* are, so N >= 1 edges inside one window count as one press.
C1_OneCountPerWindow ==
    [][\A i \in Positions :
         (last'.op = "generic_button_CB" /\ last'.id = i) =>
            IF Quiescent(i)
            THEN /\ Row(i)'.num_of_presses = Row(i).num_of_presses + 1
                 /\ cb_calls'[i] = cb_calls[i] + 1
                 /\ Debouncing(i)'
            ELSE WindowOpen(i) =>
                 /\ Row(i)'.num_of_presses = Row(i).num_of_presses
                 /\ cb_calls'[i] = cb_calls[i]
                 /\ WindowOpen(i)']_vars

\* C1 witness: a registered button whose window is open, whose last
\* interrupt was an ignored edge, and whose counter and callback count are 1.
C1_Witness ==
    \E i \in Positions :
        /\ Registered(i)
        /\ last.op = "generic_button_CB" /\ last.id = i /\ last.out = 0
        /\ WindowOpen(i)
        /\ Row(i).num_of_presses = 1
        /\ cb_calls[i] = 1

C3_ReleasedAfterSettle ==
    \A i \in Positions :
        (/\ Registered(i)
         /\ last.op = "timer_CB" /\ last.id = i
         /\ last.out = BUTTON_IS_NOT_PRESSED
         /\ Row(i).num_of_presses = 1)
        => /\ ReadButtonStateResult(i).ret = BSP_BUTTON_OK
           /\ ReadButtonStateResult(i).out = BUTTON_IS_NOT_PRESSED
           /\ GetNumOfPressesResult(i).out = 1

\* C4: when timer_CB ends for a Debouncing button whose pin it sampled as
\* released, the button becomes Quiescent with nothing else of its row
\* changed; and an edge interrupt on a button that became Quiescent that way
\* (Quiescent with a counter above 0) is accepted: counter plus one,
\* button_CB invoked, timer started, button Debouncing again.
C4_SettleThenAccept ==
    [][\A i \in Positions :
         /\ (/\ last'.op = "timer_CB" /\ last'.id = i
             /\ timer_cb.running /\ timer_cb.level = BUTTON_IS_NOT_PRESSED
             /\ Debouncing(i))
            => /\ Quiescent(i)'
               /\ Row(i)' = [Row(i) EXCEPT !.debounce_timer_expired = TRUE]
               /\ timer'[i] = "dormant"
               /\ EdgeIsAccepted(i)'
         /\ (/\ last'.op = "generic_button_CB" /\ last'.id = i
             /\ Quiescent(i) /\ Row(i).num_of_presses > 0)
            => /\ Row(i)'.num_of_presses = Row(i).num_of_presses + 1
               /\ cb_calls'[i] = cb_calls[i] + 1
               /\ timer'[i] = "queued"
               /\ Debouncing(i)']_vars

\* C4 witness: a second press was accepted after a settle: the counter is 2
\* and the window is open again.
C4_Witness ==
    \E i \in Positions :
        /\ Registered(i)
        /\ last.op = "generic_button_CB" /\ last.id = i /\ last.out = 1
        /\ Row(i).num_of_presses = 2
        /\ WindowOpen(i)

\* C5: when timer_CB ends for a Debouncing button whose pin it sampled as
\* still pressed, it starts the button's own timer again, the button stays
\* Debouncing, and its row (press counter included) and the number of
\* button_CB invocations are unchanged.
C5_StillPressedRearms ==
    [][\A i \in Positions :
         (/\ last'.op = "timer_CB" /\ last'.id = i
          /\ timer_cb.running /\ timer_cb.level = BUTTON_IS_PRESSED
          /\ Debouncing(i))
         => /\ timer'[i] = "queued"
            /\ Debouncing(i)'
            /\ system_buttons_infos' = system_buttons_infos
            /\ cb_calls' = cb_calls]_vars

\* C5 witness: the Settle Checker has just re-armed the timer of a button
\* counted once.
C5_Witness ==
    \E i \in Positions :
        /\ Registered(i)
        /\ last.op = "timer_CB" /\ last.id = i /\ last.out = BUTTON_IS_PRESSED
        /\ timer[i] = "queued"
        /\ Debouncing(i)
        /\ Row(i).num_of_presses = 1

\* Everything but last is unchanged by the step.
NothingChanges ==
    UNCHANGED <<button_module_was_initialized, system_buttons_infos, gpio,
                timer, timer_cb, cb_calls, button_CB_defined, fault>>

\* C6: while init_BSP_button_module has not returned BSP_BUTTON_OK, every
\* init_button, de_init_button, read_button_state and get_num_of_presses
\* call, whatever its identifier, returns BSP_BUTTON_MODULE_WAS_NOT_INIT_ERR
\* and changes nothing, and no button is registered.
C6_NothingBeforeModuleInit ==
    [][(~button_module_was_initialized /\ last'.op \in ApiOps)
       => /\ last'.ret = BSP_BUTTON_MODULE_WAS_NOT_INIT_ERR
          /\ last'.hw = 0
          /\ NothingChanges
          /\ \A i \in Positions :
                ~Row(i)'.was_initialized /\ ~Registered(i)']_vars

\* C6 witness: init_button was turned away after a failed
\* init_BSP_button_module attempt that had already created timers.
C6_Witness ==
    /\ ~button_module_was_initialized
    /\ last.op = "init_button"
    /\ last.id \in Positions
    /\ last.ret = BSP_BUTTON_MODULE_WAS_NOT_INIT_ERR
    /\ \E i \in Positions : Row(i).debounce # NULL

\* C7: once the module is initialized, every init_button, de_init_button,
\* read_button_state and get_num_of_presses call with an identifier outside
\* the enumeration returns BSP_BUTTON_DOES_NOT_EXIST_ERR and changes nothing.
C7_UnknownIdentifier ==
    [][(/\ button_module_was_initialized
        /\ last'.op \in ApiOps
        /\ last'.id \notin Positions)
       => /\ last'.ret = BSP_BUTTON_DOES_NOT_EXIST_ERR
          /\ last'.hw = 0
          /\ NothingChanges]_vars

\* C7 witness: get_num_of_presses was turned away for an unknown identifier
\* while a registered button was Debouncing.
C7_Witness ==
    /\ button_module_was_initialized
    /\ last.op = "get_num_of_presses"
    /\ last.id \notin Positions
    /\ last.ret = BSP_BUTTON_DOES_NOT_EXIST_ERR
    /\ \E i \in Positions : Registered(i) /\ WindowOpen(i)

\* C8: init_button on a button that is already registered returns
\* BSP_BUTTON_WAS_INITIALIZED_ERR, makes no GPIO call and changes nothing,
\* whether the button is Quiescent or Debouncing.
C8_SecondRegisterRejected ==
    [][\A i \in Positions :
         (/\ button_module_was_initialized
          /\ Registered(i)
          /\ last'.op = "init_button" /\ last'.id = i)
         => /\ last'.ret = BSP_BUTTON_WAS_INITIALIZED_ERR
            /\ last'.hw = 0
            /\ NothingChanges]_vars

\* C8 witness: init_button was rejected for a registered button in the
\* middle of a debounce window, after one counted press.
C8_Witness ==
    \E i \in Positions :
        /\ Registered(i)
        /\ last.op = "init_button" /\ last.id = i
        /\ last.ret = BSP_BUTTON_WAS_INITIALIZED_ERR
        /\ Row(i).num_of_presses = 1
        /\ timer[i] = "active"
        /\ Debouncing(i)

\* C9: with the module initialized, for an identifier of the enumeration
\* whose button was never registered, get_num_of_presses returns
\* BSP_BUTTON_OK with 0 presses, read_button_state returns
\* BSP_BUTTON_WAS_NOT_INITIALIZED_ERR, and neither changes anything.
C9_NeverRegistered ==
    [][\A i \in Positions :
         (/\ button_module_was_initialized
          /\ ~Registered(i)
          /\ last'.id = i)
         => /\ last'.op = "get_num_of_presses"
               => /\ last'.ret = BSP_BUTTON_OK
                  /\ last'.out = 0
                  /\ NothingChanges
            /\ last'.op = "read_button_state"
               => /\ last'.ret = BSP_BUTTON_WAS_NOT_INITIALIZED_ERR
                  /\ NothingChanges]_vars

\* C9 witness: get_num_of_presses succeeded with 0 for a button never
\* registered, while another button was registered and had been pressed.
C9_Witness ==
    \E i, j \in Positions :
        /\ button_module_was_initialized
        /\ ~Registered(i)
        /\ last.op = "get_num_of_presses" /\ last.id = i
        /\ last.ret = BSP_BUTTON_OK /\ last.out = 0
        /\ Registered(j) /\ Row(j).num_of_presses > 0

\* C10: once the module is initialized, init_BSP_button_module returns
\* BSP_BUTTON_OK, creates no timer, does not call gpio_install_isr_service
\* and changes nothing.
C10_InitModuleIdempotent ==
    [][(button_module_was_initialized /\ last'.op = "init_BSP_button_module")
       => /\ last'.ret = BSP_BUTTON_OK
          /\ last'.out = 0
          /\ last'.hw = 0
          /\ NothingChanges]_vars

\* C10 witness: a repeated init_BSP_button_module returned BSP_BUTTON_OK
\* while a registered button was Debouncing after a counted press.
C10_Witness ==
    /\ button_module_was_initialized
    /\ last.op = "init_BSP_button_module"
    /\ last.ret = BSP_BUTTON_OK /\ last.out = 0 /\ last.hw = 0
    /\ \E i \in Positions :
          Registered(i) /\ WindowOpen(i) /\ Row(i).num_of_presses = 1

\* C11: an init_button call that returns BSP_BUTTON_INIT_ERR (some GPIO call
\* failed) leaves the whole table, the timers and the callback count as they
\* were: the button is still not initialized, read_button_state answers
\* BSP_BUTTON_WAS_NOT_INITIALIZED_ERR and the test of init_button on
\* was_initialized does not fire; a de_init_button call that returns
\* BSP_BUTTON_DE_INIT_ERR leaves the table, the timers and the callback count
\* as they were too.
C11_FailedCallKeepsRegistry ==
    [][\A i \in Positions :
         /\ (/\ last'.op = "init_button" /\ last'.id = i
             /\ last'.ret = BSP_BUTTON_INIT_ERR)
            => /\ last'.hw \in 1 .. 5
               /\ UNCHANGED <<button_module_was_initialized,
                              system_buttons_infos, timer, timer_cb, cb_calls>>
               /\ ~Registered(i)'
               /\ ~ButtonWasInitialized(i)'
               /\ ReadButtonStateResult(i)'.ret =
                     BSP_BUTTON_WAS_NOT_INITIALIZED_ERR
         /\ (/\ last'.op = "de_init_button" /\ last'.id = i
             /\ last'.ret = BSP_BUTTON_DE_INIT_ERR)
            => /\ last'.hw \in 1 .. 2
               /\ UNCHANGED <<button_module_was_initialized,
                              system_buttons_infos, timer, timer_cb,
                              cb_calls>>]_vars

\* C11 witness: init_button has just failed in its last collaborator call
\* (gpio_isr_handler_add) on a button of the table, which is not initialized.
C11_Witness ==
    /\ last.op = "init_button" /\ last.ret = BSP_BUTTON_INIT_ERR
    /\ last.hw = 5
    /\ last.id \in Positions
    /\ ~Registered(last.id)

\* C12: in a build that links no button_CB, an accepted edge behaves as if
\* the callback were a no-op: generic_button_CB stores the sampled level,
\* raises the counter by one, starts the debounce timer and returns, and the
\* CPU takes no fault.
C12_NoCallbackIsNoOp ==
    [][\A i \in Positions :
         (/\ ~button_CB_defined
          /\ last'.op = "generic_button_CB" /\ last'.id = i
          /\ EdgeIsAccepted(i))
         => /\ Row(i)'.num_of_presses = Row(i).num_of_presses + 1
            /\ Row(i)'.state \in Levels
            /\ timer'[i] = "queued"
            /\ ~fault']_vars

\* C13: a successful de_init_button leaves every timer, and a timer_CB that
\* is running, as they are (the debounce timer in flight is not cancelled);
\* and when timer_CB later ends for the de-registered button it either only
\* sets debounce_timer_expired or only starts the timer again: the press
\* counter, the stored state and the callback count stay as they were.
C13_LateExpiryAfterDeregister ==
    [][\A i \in Positions :
         /\ (/\ last'.op = "de_init_button" /\ last'.id = i
             /\ last'.ret = BSP_BUTTON_OK)
            => UNCHANGED <<timer, timer_cb, system_buttons_infos, cb_calls>>
         /\ (/\ last'.op = "timer_CB" /\ last'.id = i
             /\ Deregistered(i))
            => /\ Row(i)'.num_of_presses = Row(i).num_of_presses
               /\ Row(i)'.state = Row(i).state
               /\ cb_calls' = cb_calls
               /\ \/ /\ Row(i)' = [Row(i) EXCEPT
                                      !.debounce_timer_expired = TRUE]
                     /\ timer' = timer
                  \/ /\ Row(i)' = Row(i)
                     /\ timer' = [timer EXCEPT ![i] = "queued"]]_vars

\* C13 witness: timer_CB has just ended, with the pin sampled as released,
\* for a button that was de-registered while Debouncing after one press that
\* stored the pressed level.
C13_Witness ==
    \E i \in Positions :
        /\ last.op = "timer_CB" /\ last.id = i
        /\ last.out = BUTTON_IS_NOT_PRESSED
        /\ Deregistered(i)
        /\ Quiescent(i)
        /\ Row(i).num_of_presses = 1
        /\ Row(i).state = BUTTON_IS_PRESSED

C15_TableIndexedByID ==
    button_module_was_initialized =>
        \A i \in Positions :
            /\ Row(i).ID = i
            /\ Row(i).interruption_type = GPIO_INTR_ANYEDGE
            /\ Row(i).debounce # NULL

\* C16: after every step the press counter of each button equals the number
\* of button_CB invocations made for it; a step raises the counter, by
\* exactly one, if and only if it is generic_button_CB accepting an edge of
\* that button, and no step lowers or resets it.
C16_CounterCountsAcceptedEdges ==
    [][\A i \in Positions :
         /\ Row(i).num_of_presses = cb_calls[i]
         /\ Row(i)'.num_of_presses = cb_calls'[i]
         /\ Row(i)'.num_of_presses >= Row(i).num_of_presses
         /\ IF /\ last'.op = "generic_button_CB" /\ last'.id = i
               /\ last'.out = 1
            THEN Row(i)'.num_of_presses = Row(i).num_of_presses + 1
            ELSE Row(i)'.num_of_presses = Row(i).num_of_presses]_vars

\* C16 witness: a button counted two presses and was de-registered (its pin
\* interrupt is off) with the counter still at 2, equal to the number of
\* button_CB invocations.
C16_Witness ==
    \E i \in Positions :
        /\ Deregistered(i)
        /\ Row(i).ID = i
        /\ Row(i).num_of_presses = 2
        /\ cb_calls[i] = 2
        /\ last.op = "de_init_button" /\ last.id = i
        /\ last.ret = BSP_BUTTON_OK

\* C17: in every reachable state a button whose debounce_timer_expired flag
\* is set has its debounce timer neither started (command queued) nor
\* active, and no timer_CB is running for it; so timer_CB never runs for a
\* Quiescent button.
C17_QuiescentHasNoTimer ==
    \A i \in Positions :
        Quiescent(i) =>
            /\ timer[i] \notin {"queued", "active"}
            /\ ~xTimerIsTimerActive(TimerHandle(i))
            /\ ~(timer_cb.running /\ timer_cb.ID = i)

\* C17 witness: timer_CB has just made a registered button, whose pin
\* interrupt is on, Quiescent for the second time, while the other button
\* was de-registered during its own debounce window, which is still open.
C17_Witness ==
    \E i, j \in Positions :
        /\ i # j
        /\ last.op = "timer_CB" /\ last.id = i
        /\ Registered(i) /\ ~Deregistered(i)
        /\ Quiescent(i)
        /\ Row(i).num_of_presses = 2
        /\ timer[i] = "dormant"
        /\ Deregistered(j) /\ WindowOpen(j)

\* C18: generic_button_CB running for a Debouncing button changes nothing:
\* the table (stored state, press counter, flag), the timers, a running
\* timer_CB and the callback count stay as they are and button_CB is not
\* called.
C18_EdgeWhileDebouncingIsIgnored ==
    [][\A i \in Positions :
         (/\ last'.op = "generic_button_CB" /\ last'.id = i
          /\ Debouncing(i))
         => /\ last'.out = 0
            /\ NothingChanges]_vars

\* C18 witness: an edge was just ignored for a registered, Debouncing button
\* whose timer is active, after two counted presses.
C18_Witness ==
    \E i \in Positions :
        /\ last.op = "generic_button_CB" /\ last.id = i /\ last.out = 0
        /\ Registered(i) /\ Debouncing(i)
        /\ timer[i] = "active"
        /\ Row(i).num_of_presses = 2
        /\ cb_calls[i] = 2

\* The return codes of the validations of init_button and de_init_button.
ValidationErrors ==
    {BSP_BUTTON_MODULE_WAS_NOT_INIT_ERR, BSP_BUTTON_DOES_NOT_EXIST_ERR,
     BSP_BUTTON_WAS_INITIALIZED_ERR, BSP_BUTTON_WAS_NOT_INITIALIZED_ERR}

\* C19: an init_button or de_init_button call that returns one of the four
\* validation codes has made no GPIO driver call and left the GPIO driver
\* as it was; and every call whose validation must fail (module not
\* initialized, identifier outside the table, init_button of an initialized
\* button, de_init_button of a button that is not initialized) returns one
\* of these codes, so it never reaches the hardware.
C19_ValidationBeforeHardware ==
    [][(last'.op \in {"init_button", "de_init_button"}) =>
         /\ (last'.ret \in ValidationErrors)
            => /\ last'.hw = 0
               /\ NothingChanges
         /\ (\/ ~button_module_was_initialized
             \/ last'.id \notin Positions
             \/ last'.op = "init_button" /\ Row(last'.id).was_initialized
             \/ last'.op = "de_init_button" /\ ~Row(last'.id).was_initialized)
            => /\ last'.ret \in ValidationErrors
               /\ last'.hw = 0
               /\ gpio' = gpio]_vars

\* C19 witness: de_init_button was just refused for a button that is not
\* initialized while the other button is registered with its pin interrupt
\* on; no GPIO call was made.
C19_Witness ==
    \E i, j \in Positions :
        /\ i # j
        /\ last.op = "de_init_button" /\ last.id = i
        /\ last.ret = BSP_BUTTON_WAS_NOT_INITIALIZED_ERR
        /\ last.hw = 0
        /\ ~Registered(i)
        /\ Registered(j) /\ InterruptIsDelivered(Row(j).GPIO)

\* C20: a button that entered Debouncing (it is registered and its flag is
\* clear) always has an expiry of its debounce timer ahead: it is never
\* left Debouncing with its timer neither started nor active and no timer_CB
\* running for it.
C20_DebouncingHasExpiryAhead ==
    \A i \in Positions :
        (Registered(i) /\ Debouncing(i)) => ExpiryAhead(i)

\* C21: in a build that links button_CB, every edge generic_button_CB
\* accepts (counter raised, button_CB called) leaves the stored state of the button equal to
\* BUTTON_IS_PRESSED: no edge whose sampled level is not-pressed is counted.
C21_OnlyPressesAreCounted ==
    [][\A i \in Positions :
         (/\ button_CB_defined
          /\ last'.op = "generic_button_CB" /\ last'.id = i
          /\ last'.out = 1
          /\ Row(i)'.num_of_presses = Row(i).num_of_presses + 1)
         => Row(i)'.state = BUTTON_IS_PRESSED]_vars
====
